---- MODULE Spec2Model ----
(***************************************************************************)
(* Model of compiler_opt/distributed/local/local_worker_manager.py:        *)
(* a LocalWorkerPool of _Stub objects, each owning one worker process      *)
(* (_run_impl), an observer thread and a message pump thread, connected    *)
(* by one duplex pipe (two bounded FIFO channels).                         *)
(***************************************************************************)
EXTENDS Integers, Sequences, FiniteSets, TLC

(* ------------------------------ bounds --------------------------------- *)
\* largest pool `count` explored
MaxCount == 2
\* attribute accesses (__getattr__) explored on a pool of one stub
MaxAttr == 2
\* invocations of remote_call explored on a pool of one stub
MaxCalls == 3
\* attribute accesses and invocations explored, over all stubs, on a larger pool
PoolMaxAttr == 2
PoolMaxCalls == 1
\* messages one direction of the OS pipe buffers before send() blocks
PipeCap == 1
\* attribute accesses and invocations explored for callers that invoke one
\* callable again and again
FloodAttr == 1
FloodCalls == 5

(* --------------------------- hosted object ----------------------------- *)
\* method names a caller may ask for; "nope" is not defined by the worker
Names == {"fast", "slow", "nope"}
HostedMethods == {"fast", "slow"}
\* call arguments; the hosted methods raise on the argument 0
Args == {0, 1}
Raises(arg) == arg = 0

is_priority_method(name) == name = "fast"

\* application(): the hosted method called with the Task's arguments
application(func_name, arg) ==
  IF Raises(arg)
    THEN [success |-> FALSE, value |-> <<"error", func_name, arg>>]
    ELSE [success |-> TRUE, value |-> <<"value", func_name, arg>>]

(* ------------------------------ messages ------------------------------- *)
Task(msgid_, func_name, arg, is_urgent) ==
  [msgid |-> msgid_, func_name |-> func_name, arg |-> arg,
   is_urgent |-> is_urgent]

TaskResult(msgid_, success, value) ==
  [msgid |-> msgid_, success |-> success, value |-> value]

NoValue == <<"none", "none", 0>>
\* the poison pill (None) the observer feeds to the pump
PoisonPill == [msgid |-> -1, success |-> FALSE, value |-> NoValue]
NoTask == [msgid |-> -1, func_name |-> "none", arg |-> 0, is_urgent |-> FALSE]

(* ------------------------------ futures -------------------------------- *)
PendingFuture == [state |-> "pending", value |-> NoValue]
CancelledError == [state |-> "exception", value |-> <<"CancelledError", "none", 0>>]
Resolved(task_result) ==
  [state |-> IF task_result.success THEN "result" ELSE "exception",
   value |-> task_result.value]
IsDone(f) == f.state # "pending"

VARIABLES
  count,      \* number of stubs of the pool
  budget,     \* attribute accesses and invocations the callers will make
  pool,       \* LocalWorkerPool: position of the thread in __exit__
  msgid,      \* _Stub._msgid
  callables,  \* func_name of the remote_call closure made with each msgid
  future,     \* result_future made with each msgid
  map,        \* _Stub._map: keys in insertion order, or None
  call,       \* the invocation of remote_call holding _Stub._lock
  taskChan,   \* pipe, stub -> worker
  resChan,    \* pipe, worker -> stub
  proc,       \* worker process: "running" or "dead"
  disp,       \* dispatch loop (main thread of the worker)
  queue,      \* work queue of the ThreadPoolExecutor
  execu,      \* the executor's single thread
  pipe_lock,  \* pipe_lock of the worker process
  obs,        \* observer thread
  pump,       \* message pump thread
  ncalls,     \* invocations made so far
  sentArgs,   \* history: arguments of the Tasks sent with each msgid
  lastSent,   \* history: msgid of the last Task sent
  pendAtKill, \* history: msgids pending when the process died
  lateCalls,  \* history: msgids invoked after the process died
  sentLog,    \* history: the Tasks sent, in order
  recvLog,    \* history: the Tasks the running dispatch loop received
  startLog,   \* history: the Tasks the running process began to execute
  resLog,     \* history: the TaskResults the worker sent, in order
  pumpLog     \* history: the TaskResults the pump looked up, in order

vars == <<count, budget, pool, msgid, callables, future, map, call, taskChan,
          resChan, proc, disp, queue, execu, pipe_lock, obs, pump, ncalls,
          sentArgs, lastSent, pendAtKill, lateCalls, sentLog, recvLog,
          startLog, resLog, pumpLog>>

Stubs == 1..count

NoCall == [pc |-> "none", msgid |-> -1, arg |-> 0]
DispRecv == [pc |-> "recv", res |-> PoisonPill]
ExecIdle == [pc |-> "idle", task |-> NoTask, res |-> PoisonPill]
PumpRecv == [pc |-> "recv", msg |-> PoisonPill]

\* sum of the msgid counters: attribute accesses made so far
RECURSIVE SumTo(_, _)
SumTo(f, n) == IF n = 0 THEN 0 ELSE f[n] + SumTo(f, n - 1)
nattr == SumTo(msgid, count)
AttrBudget == budget.attr
CallBudget == budget.calls

\* Python dict, keys in insertion order
InMap(m, keys) == \E i \in 1..Len(keys) : keys[i] = m
RECURSIVE DelKey(_, _)
DelKey(keys, m) ==
  IF keys = <<>> THEN <<>>
  ELSE IF Head(keys) = m THEN Tail(keys)
  ELSE <<Head(keys)>> \o DelKey(Tail(keys), m)
SetKey(keys, m) == IF InMap(m, keys) THEN keys ELSE Append(keys, m)

_is_stopped(s) == map[s].isNone
\* _Stub._lock is held by the caller inside remote_call; the pump's critical
\* sections do not block and are taken as one step
LockFree(s) == call[s].pc = "none"

(* -------------------------------- Init --------------------------------- *)
\* LocalWorkerPool.__init__ / _Stub.__init__: every stub started
Started ==
  /\ pool = [pc |-> "scope", i |-> 1]
  /\ msgid = [s \in 1..count |-> 0]
  /\ callables = [s \in 1..count |-> <<>>]
  /\ future = [s \in 1..count |-> <<>>]
  /\ map = [s \in 1..count |-> [isNone |-> FALSE, keys |-> <<>>]]
  /\ call = [s \in 1..count |-> NoCall]
  /\ taskChan = [s \in 1..count |-> <<>>]
  /\ resChan = [s \in 1..count |-> <<>>]
  /\ proc = [s \in 1..count |-> "running"]
  /\ disp = [s \in 1..count |-> DispRecv]
  /\ queue = [s \in 1..count |-> <<>>]
  /\ execu = [s \in 1..count |-> ExecIdle]
  /\ pipe_lock = [s \in 1..count |-> "free"]
  /\ obs = [s \in 1..count |-> "join"]
  /\ pump = [s \in 1..count |-> PumpRecv]
  /\ ncalls = 0
  /\ sentArgs = [s \in 1..count |-> <<>>]
  /\ lastSent = [s \in 1..count |-> -1]
  /\ pendAtKill = [s \in 1..count |-> {}]
  /\ lateCalls = [s \in 1..count |-> {}]
  /\ sentLog = [s \in 1..count |-> <<>>]
  /\ recvLog = [s \in 1..count |-> <<>>]
  /\ startLog = [s \in 1..count |-> <<>>]
  /\ resLog = [s \in 1..count |-> <<>>]
  /\ pumpLog = [s \in 1..count |-> <<>>]

\* the callers of a single stub, of a pool of stubs, and callers that invoke
\* one callable over and over
Init ==
  /\ count \in 1..MaxCount
  /\ budget = IF count = 1 THEN [attr |-> MaxAttr, calls |-> MaxCalls]
              ELSE [attr |-> PoolMaxAttr, calls |-> PoolMaxCalls]
  /\ Started

(* ------------------------------ the stub ------------------------------- *)
\* _Stub.__getattr__: a new future and the next msgid, under _msgidlock
getattr(s, name) ==
  /\ nattr < AttrBudget
  /\ msgid' = [msgid EXCEPT ![s] = @ + 1]
  /\ callables' = [callables EXCEPT ![s] = Append(@, name)]
  /\ future' = [future EXCEPT ![s] = Append(@, PendingFuture)]
  /\ sentArgs' = [sentArgs EXCEPT ![s] = Append(@, {})]
  /\ UNCHANGED <<count, budget, pool, map, call, taskChan, resChan, proc,
                 disp, queue, execu, pipe_lock, obs, pump, ncalls, lastSent,
                 pendAtKill, lateCalls, sentLog, recvLog, startLog, resLog,
                 pumpLog>>

\* remote_call, from taking _lock to the test of _is_stopped(); on a stopped
\* stub set_exception is applied and the lock released in the same step
\* (set_exception on a future that is already done raises InvalidStateError
\* out of remote_call and changes nothing)
remote_call_enter(s, m, arg) ==
  /\ ncalls < CallBudget
  /\ m \in 0..(msgid[s] - 1)
  /\ LockFree(s)
  /\ ncalls' = ncalls + 1
  /\ lateCalls' = [lateCalls EXCEPT ![s] =
                     IF proc[s] = "dead" THEN @ \cup {m} ELSE @]
  /\ IF _is_stopped(s)
       THEN /\ future' = [future EXCEPT ![s][m + 1] =
                            IF IsDone(@) THEN @ ELSE CancelledError]
            /\ call' = call
       ELSE /\ call' = [call EXCEPT ![s] =
                          [pc |-> "send", msgid |-> m, arg |-> arg]]
            /\ future' = future
  /\ UNCHANGED <<count, budget, pool, msgid, callables, map, taskChan,
                 resChan, proc, disp, queue, execu, pipe_lock, obs, pump,
                 sentArgs, lastSent, pendAtKill, sentLog, recvLog, startLog,
                 resLog, pumpLog>>

\* remote_call: self._pipe.send(Task(...)), blocking while the pipe is full
remote_call_send(s) ==
  /\ call[s].pc = "send"
  /\ Len(taskChan[s]) < PipeCap
  /\ LET m == call[s].msgid
         name == callables[s][m + 1]
     IN /\ taskChan' = [taskChan EXCEPT ![s] =
                          Append(@, Task(m, name, call[s].arg,
                                         is_priority_method(name)))]
        /\ sentArgs' = [sentArgs EXCEPT ![s][m + 1] = @ \cup {call[s].arg}]
        /\ lastSent' = [lastSent EXCEPT ![s] = m]
        /\ sentLog' = [sentLog EXCEPT ![s] =
                         Append(@, Task(m, name, call[s].arg,
                                        is_priority_method(name)))]
  /\ call' = [call EXCEPT ![s].pc = "register"]
  /\ UNCHANGED <<count, budget, pool, msgid, callables, future, map, resChan,
                 proc, disp, queue, execu, pipe_lock, obs, pump, ncalls,
                 pendAtKill, lateCalls, recvLog, startLog, resLog, pumpLog>>

\* remote_call: self._map[msgid] = result_future, then _lock is released
remote_call_register(s) ==
  /\ call[s].pc = "register"
  /\ map' = [map EXCEPT ![s].keys = SetKey(@, call[s].msgid)]
  /\ call' = [call EXCEPT ![s] = NoCall]
  /\ UNCHANGED <<count, budget, pool, msgid, callables, future, taskChan,
                 resChan, proc, disp, queue, execu, pipe_lock, obs, pump,
                 ncalls, sentArgs, lastSent, pendAtKill, lateCalls, sentLog,
                 recvLog, startLog, resLog, pumpLog>>

(* ------------------------- the worker process -------------------------- *)
\* a process whose exit takes the processes of the other stubs with it
Exited_all(s) ==
  /\ proc' = [t \in 1..count |-> "dead"]
  /\ disp' = [disp EXCEPT ![s] = DispRecv]
  /\ queue' = [queue EXCEPT ![s] = <<>>]
  /\ execu' = [execu EXCEPT ![s] = ExecIdle]
  /\ pipe_lock' = [pipe_lock EXCEPT ![s] = "free"]
  /\ pendAtKill' = pendAtKill
  /\ recvLog' = [recvLog EXCEPT ![s] = <<>>]
  /\ startLog' = [startLog EXCEPT ![s] = <<>>]

\* the process exits (killed, or an exception left _run): its threads are gone
Exited(s) ==
  /\ proc' = [proc EXCEPT ![s] = "dead"]
  /\ disp' = [disp EXCEPT ![s] = DispRecv]
  /\ queue' = [queue EXCEPT ![s] = <<>>]
  /\ execu' = [execu EXCEPT ![s] = ExecIdle]
  /\ pipe_lock' = [pipe_lock EXCEPT ![s] = "free"]
  /\ pendAtKill' = [pendAtKill EXCEPT ![s] =
       IF map[s].isNone THEN {}
       ELSE {m \in 0..(msgid[s] - 1) :
               InMap(m, map[s].keys) /\ ~IsDone(future[s][m + 1])}]
  /\ recvLog' = [recvLog EXCEPT ![s] = <<>>]
  /\ startLog' = [startLog EXCEPT ![s] = <<>>]

\* _run_impl, one turn of the while loop up to the call of send() or submit():
\* pipe.recv(), getattr(obj, task.func_name), and for an urgent task
\* application() with both outcomes turned into a TaskResult.  getattr of a
\* name the hosted object lacks raises out of _run_impl and _run re-raises.
run_impl_recv(s) ==
  /\ proc[s] = "running"
  /\ disp[s].pc = "recv"
  /\ taskChan[s] # <<>>
  /\ LET task == Head(taskChan[s])
     IN /\ taskChan' = [taskChan EXCEPT ![s] = Tail(@)]
        /\ IF task.func_name \notin HostedMethods
             THEN Exited(s)
             ELSE /\ IF task.is_urgent
                       THEN /\ disp' = [disp EXCEPT ![s] =
                                 [pc |-> "send",
                                  res |-> LET r == application(task.func_name,
                                                               task.arg)
                                          IN TaskResult(task.msgid, r.success,
                                                        r.value)]]
                            /\ queue' = queue
                            /\ startLog' = [startLog EXCEPT ![s] =
                                               Append(@, task)]
                       ELSE /\ queue' = [queue EXCEPT ![s] = Append(@, task)]
                            /\ disp' = disp
                            /\ startLog' = startLog
                  /\ recvLog' = [recvLog EXCEPT ![s] = Append(@, task)]
                  /\ UNCHANGED <<proc, execu, pipe_lock, pendAtKill>>
  /\ UNCHANGED <<count, budget, pool, msgid, callables, future, map, call,
                 resChan, obs, pump, ncalls, sentArgs, lastSent, lateCalls,
                 sentLog, resLog, pumpLog>>

\* an executor that takes the next work item while one is executing
pool_start_busy(s) ==
  /\ proc[s] = "running"
  /\ execu[s].pc \in {"idle", "run"}
  /\ queue[s] # <<>>
  /\ execu' = [execu EXCEPT ![s] =
                 [pc |-> "run", task |-> Head(queue[s]), res |-> PoisonPill]]
  /\ queue' = [queue EXCEPT ![s] = Tail(@)]
  /\ startLog' = [startLog EXCEPT ![s] = Append(@, Head(queue[s]))]
  /\ UNCHANGED <<count, budget, pool, msgid, callables, future, map, call,
                 taskChan, resChan, proc, disp, pipe_lock, obs, pump, ncalls,
                 sentArgs, lastSent, pendAtKill, lateCalls, sentLog, recvLog,
                 resLog, pumpLog>>

\* a work queue served last in, first out
pool_start_lifo(s) ==
  /\ proc[s] = "running"
  /\ execu[s].pc = "idle"
  /\ queue[s] # <<>>
  /\ execu' = [execu EXCEPT ![s] =
                 [pc |-> "run", task |-> queue[s][Len(queue[s])],
                  res |-> PoisonPill]]
  /\ queue' = [queue EXCEPT ![s] = SubSeq(@, 1, Len(@) - 1)]
  /\ startLog' = [startLog EXCEPT ![s] = Append(@, queue[s][Len(queue[s])])]
  /\ UNCHANGED <<count, budget, pool, msgid, callables, future, map, call,
                 taskChan, resChan, proc, disp, pipe_lock, obs, pump, ncalls,
                 sentArgs, lastSent, pendAtKill, lateCalls, sentLog, recvLog,
                 resLog, pumpLog>>

\* ThreadPoolExecutor(max_workers=1): the one thread takes the next work item
pool_start(s) ==
  /\ proc[s] = "running"
  /\ execu[s].pc = "idle"
  /\ queue[s] # <<>>
  /\ execu' = [execu EXCEPT ![s] =
                 [pc |-> "run", task |-> Head(queue[s]), res |-> PoisonPill]]
  /\ queue' = [queue EXCEPT ![s] = Tail(@)]
  /\ startLog' = [startLog EXCEPT ![s] = Append(@, Head(queue[s]))]
  /\ UNCHANGED <<count, budget, pool, msgid, callables, future, map, call,
                 taskChan, resChan, proc, disp, pipe_lock, obs, pump, ncalls,
                 sentArgs, lastSent, pendAtKill, lateCalls, sentLog, recvLog,
                 resLog, pumpLog>>

\* on_done without the branch for f.exception(): the result of a method that
\* raised is dropped
on_done_drop(s) ==
  /\ proc[s] = "running"
  /\ execu[s].pc = "run"
  /\ LET task == execu[s].task
         r == application(task.func_name, task.arg)
     IN execu' = [execu EXCEPT ![s] =
                    IF r.success
                      THEN [pc |-> "send", task |-> NoTask,
                            res |-> TaskResult(task.msgid, r.success, r.value)]
                      ELSE ExecIdle]
  /\ UNCHANGED <<count, budget, pool, msgid, callables, future, map, call,
                 taskChan, resChan, proc, disp, queue, pipe_lock, obs, pump,
                 ncalls, sentArgs, lastSent, pendAtKill, lateCalls, sentLog,
                 recvLog, startLog, resLog, pumpLog>>

\* application() returns or raises in the executor thread; on_done builds the
\* TaskResult from f.exception() / f.result()
on_done(s) ==
  /\ proc[s] = "running"
  /\ execu[s].pc = "run"
  /\ LET task == execu[s].task
         r == application(task.func_name, task.arg)
     IN execu' = [execu EXCEPT ![s] =
                    [pc |-> "send", task |-> NoTask,
                     res |-> TaskResult(task.msgid, r.success, r.value)]]
  /\ UNCHANGED <<count, budget, pool, msgid, callables, future, map, call,
                 taskChan, resChan, proc, disp, queue, pipe_lock, obs, pump,
                 ncalls, sentArgs, lastSent, pendAtKill, lateCalls, sentLog,
                 recvLog, startLog, resLog, pumpLog>>

\* send(): `with pipe_lock`, by the dispatch thread or the executor thread
WantsSend(s, who) ==
  IF who = "disp" THEN disp[s].pc = "send" ELSE execu[s].pc = "send"

send_lock(s, who) ==
  /\ proc[s] = "running"
  /\ WantsSend(s, who)
  /\ pipe_lock[s] = "free"
  /\ pipe_lock' = [pipe_lock EXCEPT ![s] = who]
  /\ UNCHANGED <<count, budget, pool, msgid, callables, future, map, call,
                 taskChan, resChan, proc, disp, queue, execu, obs, pump,
                 ncalls, sentArgs, lastSent, pendAtKill, lateCalls, sentLog,
                 recvLog, startLog, resLog, pumpLog>>

\* send(): pipe.send(task_result), blocking while the pipe is full, then the
\* lock is released
send(s, who) ==
  /\ proc[s] = "running"
  /\ pipe_lock[s] = who
  /\ Len(resChan[s]) < PipeCap
  /\ resChan' = [resChan EXCEPT ![s] =
                   Append(@, IF who = "disp" THEN disp[s].res
                             ELSE execu[s].res)]
  /\ pipe_lock' = [pipe_lock EXCEPT ![s] = "free"]
  /\ resLog' = [resLog EXCEPT ![s] =
                  Append(@, IF who = "disp" THEN disp[s].res ELSE execu[s].res)]
  /\ IF who = "disp"
       THEN disp' = [disp EXCEPT ![s] = DispRecv] /\ execu' = execu
       ELSE execu' = [execu EXCEPT ![s] = ExecIdle] /\ disp' = disp
  /\ UNCHANGED <<count, budget, pool, msgid, callables, future, map, call,
                 taskChan, proc, queue, obs, pump, ncalls, sentArgs, lastSent,
                 pendAtKill, lateCalls, sentLog, recvLog, startLog, pumpLog>>

\* self._process.kill(), by shutdown() or by anything outside the program
kill(s) ==
  /\ proc[s] = "running"
  /\ Exited(s)
  /\ UNCHANGED <<count, budget, pool, msgid, callables, future, map, call,
                 taskChan, resChan, obs, pump, ncalls, sentArgs, lastSent,
                 lateCalls, sentLog, resLog, pumpLog>>

(* --------------------- observer and message pump ----------------------- *)
\* observer: self._process.join() returns, then child_pipe.send(None)
observer(s) ==
  /\ obs[s] = "join"
  /\ proc[s] = "dead"
  /\ Len(resChan[s]) < PipeCap
  /\ resChan' = [resChan EXCEPT ![s] = Append(@, PoisonPill)]
  /\ obs' = [obs EXCEPT ![s] = "done"]
  /\ UNCHANGED <<count, budget, pool, msgid, callables, future, map, call,
                 taskChan, proc, disp, queue, execu, pipe_lock, pump, ncalls,
                 sentArgs, lastSent, pendAtKill, lateCalls, sentLog, recvLog,
                 startLog, resLog, pumpLog>>

\* _msg_pump: self._pipe.recv() and the test for the poison pill
msg_pump_recv(s) ==
  /\ pump[s].pc = "recv"
  /\ resChan[s] # <<>>
  /\ LET task_result == Head(resChan[s])
     IN pump' = [pump EXCEPT ![s] =
                   IF task_result = PoisonPill
                     THEN [pc |-> "stop", msg |-> PoisonPill]
                     ELSE [pc |-> "have", msg |-> task_result]]
  /\ resChan' = [resChan EXCEPT ![s] = Tail(@)]
  /\ UNCHANGED <<count, budget, pool, msgid, callables, future, map, call,
                 taskChan, proc, disp, queue, execu, pipe_lock, obs, ncalls,
                 sentArgs, lastSent, pendAtKill, lateCalls, sentLog, recvLog,
                 startLog, resLog, pumpLog>>

\* _msg_pump, `with self._lock`: look the future up, delete the entry, resolve.
\* A msgid that is not in the map raises KeyError; resolving a future that is
\* already done raises InvalidStateError after the entry was deleted.  Either
\* exception ends the pump thread.
msg_pump_resolve(s) ==
  /\ pump[s].pc = "have"
  /\ LockFree(s)
  /\ LET task_result == pump[s].msg
         m == task_result.msgid
     IN IF ~InMap(m, map[s].keys)
          THEN /\ pump' = [pump EXCEPT ![s] =
                             [pc |-> "KeyError", msg |-> PoisonPill]]
               /\ UNCHANGED <<map, future>>
          ELSE /\ map' = [map EXCEPT ![s].keys = DelKey(@, m)]
               /\ IF IsDone(future[s][m + 1])
                    THEN /\ pump' = [pump EXCEPT ![s] =
                                [pc |-> "InvalidStateError",
                                 msg |-> PoisonPill]]
                         /\ future' = future
                    ELSE /\ pump' = [pump EXCEPT ![s] = PumpRecv]
                         /\ future' = [future EXCEPT ![s][m + 1] =
                                         Resolved(task_result)]
  /\ pumpLog' = [pumpLog EXCEPT ![s] = Append(@, pump[s].msg)]
  /\ UNCHANGED <<count, budget, pool, msgid, callables, call, taskChan,
                 resChan, proc, disp, queue, execu, pipe_lock, obs, ncalls,
                 sentArgs, lastSent, pendAtKill, lateCalls, sentLog, recvLog,
                 startLog, resLog>>

\* the keys of the map before the first one whose future is already done
RECURSIVE PendingPrefix(_, _)
PendingPrefix(keys, futs) ==
  IF keys = <<>> \/ IsDone(futs[Head(keys) + 1]) THEN <<>>
  ELSE <<Head(keys)>> \o PendingPrefix(Tail(keys), futs)

\* v.set_exception(CancelledError()) applied to the futures of the keys `hit`
CancelAll_first(futs, hit) ==
  [i \in 1..Len(futs) |->
     IF hit # <<>> /\ Head(hit) = i - 1 THEN CancelledError ELSE futs[i]]
CancelAll(futs, hit) ==
  [i \in 1..Len(futs) |->
     IF InMap(i - 1, hit) THEN CancelledError ELSE futs[i]]

\* _msg_pump after the break, `with self._lock`: set CancelledError on every
\* future of the map in order, then self._map = None.  set_exception on a
\* future that is already done raises: the loop stops there and the map is
\* never set to None.
msg_pump_stop(s) ==
  /\ pump[s].pc = "stop"
  /\ LockFree(s)
  /\ LET keys == map[s].keys
         hit == PendingPrefix(keys, future[s])
     IN /\ future' = [future EXCEPT ![s] = CancelAll(@, hit)]
        /\ IF Len(hit) = Len(keys)
             THEN /\ map' = [map EXCEPT ![s] = [isNone |-> TRUE, keys |-> <<>>]]
                  /\ pump' = [pump EXCEPT ![s] =
                                [pc |-> "done", msg |-> PoisonPill]]
             ELSE /\ map' = map
                  /\ pump' = [pump EXCEPT ![s] =
                                [pc |-> "InvalidStateError",
                                 msg |-> PoisonPill]]
  /\ UNCHANGED <<count, budget, pool, msgid, callables, call, taskChan,
                 resChan, proc, disp, queue, execu, pipe_lock, obs, ncalls,
                 sentArgs, lastSent, pendAtKill, lateCalls, sentLog, recvLog,
                 startLog, resLog, pumpLog>>

PumpExited(s) == pump[s].pc \in {"done", "KeyError", "InvalidStateError"}

(* ------------------------------ the pool ------------------------------- *)
\* LocalWorkerPool.__exit__ is entered
exit_begin ==
  /\ pool.pc = "scope"
  /\ pool' = [pc |-> "shutdown", i |-> 1]
  /\ UNCHANGED <<count, budget, msgid, callables, future, map, call, taskChan,
                 resChan, proc, disp, queue, execu, pipe_lock, obs, pump,
                 ncalls, sentArgs, lastSent, pendAtKill, lateCalls, sentLog,
                 recvLog, startLog, resLog, pumpLog>>

\* __exit__, first loop: s.shutdown() kills the process of the next stub
\* (kill() of a process that already exited does nothing)
shutdown ==
  /\ pool.pc = "shutdown"
  /\ LET s == pool.i
     IN IF proc[s] = "running"
          THEN Exited(s)
          ELSE UNCHANGED <<proc, disp, queue, execu, pipe_lock, pendAtKill,
                           recvLog, startLog>>
  /\ pool' = IF pool.i = count THEN [pc |-> "join", i |-> 1]
             ELSE [pc |-> "shutdown", i |-> pool.i + 1]
  /\ UNCHANGED <<count, budget, msgid, callables, future, map, call, taskChan,
                 resChan, obs, pump, ncalls, sentArgs, lastSent, lateCalls,
                 sentLog, resLog, pumpLog>>

\* __exit__, second loop: s.join() returns once the observer thread, the pump
\* thread and the process have exited
join ==
  /\ pool.pc = "join"
  /\ LET s == pool.i
     IN obs[s] = "done" /\ PumpExited(s) /\ proc[s] = "dead"
  /\ pool' = IF pool.i = count THEN [pc |-> "exited", i |-> count]
             ELSE [pc |-> "join", i |-> pool.i + 1]
  /\ UNCHANGED <<count, budget, msgid, callables, future, map, call, taskChan,
                 resChan, proc, disp, queue, execu, pipe_lock, obs, pump,
                 ncalls, sentArgs, lastSent, pendAtKill, lateCalls, sentLog,
                 recvLog, startLog, resLog, pumpLog>>

(* --------------------------- specification ----------------------------- *)
Next ==
  \/ \E s \in Stubs, name \in Names : getattr(s, name)
  \/ \E s \in Stubs, m \in 0..(AttrBudget - 1), arg \in Args :
       remote_call_enter(s, m, arg)
  \/ \E s \in Stubs : remote_call_send(s)
  \/ \E s \in Stubs : remote_call_register(s)
  \/ \E s \in Stubs : run_impl_recv(s)
  \/ \E s \in Stubs : pool_start(s)
  \/ \E s \in Stubs : on_done(s)
  \/ \E s \in Stubs, who \in {"disp", "exec"} : send_lock(s, who)
  \/ \E s \in Stubs, who \in {"disp", "exec"} : send(s, who)
  \/ \E s \in Stubs : kill(s)
  \/ \E s \in Stubs : observer(s)
  \/ \E s \in Stubs : msg_pump_recv(s)
  \/ \E s \in Stubs : msg_pump_resolve(s)
  \/ \E s \in Stubs : msg_pump_stop(s)
  \/ exit_begin
  \/ shutdown
  \/ join

Spec == Init /\ [][Next]_vars

\* a pool of one stub: LocalWorkerPool(worker_class, 1)
StubInit == Init /\ count = 1
StubSpec == StubInit /\ [][Next]_vars
FloodInit ==
  /\ count = 1
  /\ budget = [attr |-> FloodAttr, calls |-> FloodCalls]
  /\ Started
FloodSpec == FloodInit /\ [][Next]_vars

(* ------------------------------ claims --------------------------------- *)
\* a Task was sent for the callable made with msgid m of stub s
Issued(s, m) == m < msgid[s] /\ sentArgs[s][m + 1] # {}
Msgids == 0..(MaxAttr - 1)

\* a step of one of the threads of stub s and its worker while the process runs
Progress(s) ==
  \/ remote_call_send(s)
  \/ remote_call_register(s)
  \/ run_impl_recv(s)
  \/ pool_start(s)
  \/ on_done(s)
  \/ \E who \in {"disp", "exec"} : send_lock(s, who) \/ send(s, who)
  \/ msg_pump_recv(s)
  \/ msg_pump_resolve(s)

\* C1: every future returned by a call on a stub whose worker process keeps
\* running is eventually resolved: as long as such a future is unresolved, some
\* thread of the stub or of its worker can still take a step.
C1_AllFuturesResolve ==
  \A s \in Stubs, m \in Msgids :
    (Issued(s, m) /\ ~IsDone(future[s][m + 1]) /\ proc[s] = "running")
      => ENABLED Progress(s)

\* C2: a future resolved from a TaskResult holds the outcome of the Task of
\* every call that returned it, never the outcome of another call.
C2_NoCrossTalk ==
  \A s \in Stubs, m \in Msgids :
    (Issued(s, m) /\ IsDone(future[s][m + 1])
       /\ future[s][m + 1] # CancelledError)
      => \A arg \in sentArgs[s][m + 1] :
           future[s][m + 1] =
             Resolved(application(callables[s][m + 1], arg))

\* C3: the msgid of each Task sent is larger than the msgid of the Task sent
\* before it, and is not the msgid of a call that is still pending.
C3_MsgidUnique ==
  [][\A s \in Stubs :
       remote_call_send(s)
         => /\ call[s].msgid > lastSent[s]
            /\ ~InMap(call[s].msgid, map[s].keys)]_vars

C5_LateCallsCancelled ==
  \A s \in Stubs : \A m \in lateCalls[s] :
    future[s][m + 1] # CancelledError
      => ENABLED (\/ remote_call_send(s)
                  \/ remote_call_register(s)
                  \/ observer(s)
                  \/ msg_pump_recv(s)
                  \/ msg_pump_resolve(s)
                  \/ msg_pump_stop(s))

\* C6: a stopped stub stays stopped, and a call invoked on a stopped stub
\* leaves its future failed with a cancellation error, sends no Task and
\* registers nothing.
C6_StoppedRejects ==
  [][\A s \in Stubs :
       /\ map[s].isNone => map'[s].isNone
       /\ \A m \in Msgids, arg \in Args :
            (map[s].isNone /\ remote_call_enter(s, m, arg))
              => /\ future'[s][m + 1] = CancelledError
                 /\ UNCHANGED <<taskChan, map, call>>]_vars

\* C7: a Task naming a method the hosted object lacks leaves the process
\* running with a failed TaskResult for its msgid about to be sent.
C7_UnknownMethodFails ==
  [][\A s \in Stubs :
       (run_impl_recv(s) /\ Head(taskChan[s]).func_name \notin HostedMethods)
         => /\ proc'[s] = "running"
            /\ disp'[s].pc = "send"
            /\ disp'[s].res.msgid = Head(taskChan[s]).msgid
            /\ ~disp'[s].res.success]_vars

\* C8: a hosted method that raises, on either path, leaves the process running
\* with a failed TaskResult for the Task's msgid, and the pump fails the
\* caller's future with the error of a failed TaskResult.
C8_ErrorsBecomeResults ==
  [][\A s \in Stubs :
       /\ (run_impl_recv(s) /\ Head(taskChan[s]).is_urgent
             /\ Head(taskChan[s]).func_name \in HostedMethods
             /\ Raises(Head(taskChan[s]).arg))
            => /\ proc'[s] = "running"
               /\ disp'[s].res.msgid = Head(taskChan[s]).msgid
               /\ ~disp'[s].res.success
       /\ (on_done(s) /\ Raises(execu[s].task.arg))
            => /\ proc'[s] = "running"
               /\ execu'[s].res.msgid = execu[s].task.msgid
               /\ ~execu'[s].res.success
       /\ (msg_pump_resolve(s) /\ ~pump[s].msg.success)
            => future'[s][pump[s].msg.msgid + 1] =
                 [state |-> "exception", value |-> pump[s].msg.value]]_vars

\* C9: an urgent call is resolved whether or not the non-urgent calls ahead of
\* it complete: as long as its future is unresolved and the process runs, some
\* thread other than the executor running a hosted method can take a step.
C9_PriorityBypass ==
  \A s \in Stubs, m \in Msgids :
    (Issued(s, m) /\ is_priority_method(callables[s][m + 1])
       /\ ~IsDone(future[s][m + 1]) /\ proc[s] = "running")
      => ENABLED (\/ remote_call_send(s)
                  \/ remote_call_register(s)
                  \/ run_impl_recv(s)
                  \/ \E who \in {"disp", "exec"} :
                       send_lock(s, who) \/ send(s, who)
                  \/ msg_pump_recv(s)
                  \/ msg_pump_resolve(s))

\* C10: the pool holds `count` stubs, shuts all of them down before it joins one,
\* and when __exit__ has returned every stub has its process, observer and
\* pump exited, is stopped, and has no issued future left unresolved.
C10_PoolTeardown ==
  /\ DOMAIN map = 1..count
  /\ pool.pc = "join" => \A s \in Stubs : proc[s] = "dead"
  /\ pool.pc = "exited"
       => \A s \in Stubs :
            /\ proc[s] = "dead" /\ obs[s] = "done" /\ PumpExited(s)
            /\ map[s].isNone
            /\ \A m \in Msgids : Issued(s, m) => IsDone(future[s][m + 1])

(* ----------------------- the pending-futures table --------------------- *)
\* the entries of a history with the msgid m
RECURSIVE CountMsgid(_, _)
CountMsgid(log, m) ==
  IF log = <<>> THEN 0
  ELSE (IF Head(log).msgid = m THEN 1 ELSE 0) + CountMsgid(Tail(log), m)

\* C11: whenever _lock is free and the stub is not stopped, the table holds
\* an entry for m exactly when a Task with msgid m was sent and the pump has
\* processed no TaskResult for m; and an entry leaves the table only in the
\* pump's step for a TaskResult with that msgid or in the cancellation at stop
C11_PendingTable ==
  [][\A s \in Stubs :
       /\ (~_is_stopped(s) /\ LockFree(s))' =>
            \A m \in 0..(msgid[s] - 1) :
              (InMap(m, map[s].keys) <=>
                 (CountMsgid(sentLog[s], m) > 0
                    /\ CountMsgid(pumpLog[s], m) = 0))'
       /\ \A m \in 0..(msgid[s] - 1) :
            (InMap(m, map[s].keys) /\ ~InMap(m, map'[s].keys)) =>
              \/ msg_pump_resolve(s) /\ pump[s].msg.msgid = m
              \/ msg_pump_stop(s)]_vars

\* C12: the pump's lookup self._map[task_result.msgid] finds an entry for
\* every TaskResult it receives
C12_LookupSucceeds ==
  [][\A s \in Stubs :
       msg_pump_resolve(s) => InMap(pump[s].msg.msgid, map[s].keys)]_vars

(* ---------------------- one TaskResult per Task ------------------------ *)
\* the Tasks with msgid m the worker process holds: queued, executing, or
\* executed with the TaskResult not sent yet
InWorker(s, m) ==
  CountMsgid(queue[s], m)
    + (IF execu[s].pc = "run" /\ execu[s].task.msgid = m THEN 1 ELSE 0)
    + (IF execu[s].pc = "send" /\ execu[s].res.msgid = m THEN 1 ELSE 0)
    + (IF disp[s].pc = "send" /\ disp[s].res.msgid = m THEN 1 ELSE 0)

\* the TaskResults with msgid m the pump has taken off the pipe
Consumed(s, m) ==
  CountMsgid(pumpLog[s], m)
    + (IF pump[s].pc = "have" /\ pump[s].msg.msgid = m THEN 1 ELSE 0)

IsPrefix(a, b) == Len(a) <= Len(b) /\ \A i \in 1..Len(a) : a[i] = b[i]

\* a occurs in b with its order kept
RECURSIVE IsSubseq(_, _)
IsSubseq(a, b) ==
  IF a = <<>> THEN TRUE
  ELSE IF b = <<>> THEN FALSE
  ELSE IF Head(a) = Head(b) THEN IsSubseq(Tail(a), Tail(b))
  ELSE IsSubseq(a, Tail(b))

IsUrgent(task) == task.is_urgent
IsQueued(task) == ~task.is_urgent

\* C14 as stated: the dispatch loop of a live process receives the Tasks in
\* the order sent, and the Tasks begin to execute in that same order: no Task
\* starts after a Task sent later, urgent or not
C14_StartInSendOrder ==
  \A s \in Stubs :
    proc[s] = "running" =>
      /\ IsPrefix(recvLog[s], sentLog[s])
      /\ IsSubseq(startLog[s], recvLog[s])

\* C14 amended: the Tasks are received in the order sent, the non-urgent
\* Tasks begin to execute in that order, and an urgent Task begins to execute
\* when it is received, whatever is queued
C14_ReceivedInSendOrder ==
  \A s \in Stubs :
    proc[s] = "running" =>
      /\ IsPrefix(recvLog[s], sentLog[s])
      /\ IsPrefix(SelectSeq(startLog[s], IsQueued),
                  SelectSeq(recvLog[s], IsQueued))
      /\ SelectSeq(startLog[s], IsUrgent) = SelectSeq(recvLog[s], IsUrgent)

\* three Tasks were received in the order sent, two queued ones and an urgent
\* one sent last, and the urgent one began to execute before a queued one
C14_Witness ==
  /\ proc[1] = "running"
  /\ Len(recvLog[1]) = 3
  /\ Len(startLog[1]) = 3
  /\ IsQueued(recvLog[1][1]) /\ IsQueued(recvLog[1][2])
  /\ IsUrgent(recvLog[1][3])
  /\ recvLog[1][1] # recvLog[1][2]
  /\ IsUrgent(startLog[1][2])

(* ------------------------- issuing a call ------------------------------ *)
\* a caller inside remote_call holds _lock and is blocked in pipe.send(), the
\* pump holds a TaskResult (or the sentinel) and waits for _lock, and the
\* dispatch loop is blocked in send() because the result pipe is full too
Deadlock(s) ==
  /\ proc[s] = "running"
  /\ call[s].pc = "send" /\ Len(taskChan[s]) = PipeCap
  /\ pump[s].pc \in {"have", "stop"}
  /\ disp[s].pc = "send" /\ Len(resChan[s]) = PipeCap

\* C15: issuing a call never blocks for good: the caller, the pump and the
\* worker are never blocked on each other, and while a caller is inside
\* remote_call on a stub whose process runs, some thread of the stub or of the
\* worker can take a step
C15_CallNeverBlocks ==
  \A s \in Stubs :
    /\ ~Deadlock(s)
    /\ (call[s].pc # "none" /\ proc[s] = "running") => ENABLED Progress(s)

(* --------------------------- stub isolation ---------------------------- *)
\* all a stub owns: counter, callables and futures, table, lock, pipe,
\* process and threads
StubState(t) ==
  <<msgid[t], callables[t], future[t], map[t], call[t], taskChan[t],
    resChan[t], proc[t], disp[t], queue[t], execu[t], pipe_lock[t], obs[t],
    pump[t]>>

\* the process of stub s dies, its observer sends the sentinel, or its pump
\* handles the sentinel
Stopping(s) ==
  \/ proc'[s] # proc[s]
  \/ obs'[s] # obs[s]
  \/ pump[s].pc = "stop" /\ pump'[s] # pump[s]

\* C16: a step in which the worker of one stub is killed or crashes, or in
\* which that stub is stopped, leaves the state of every other stub of the
\* pool as it was: table, msgid counter, stopped flag, futures, pipe, process
\* and threads
C16_StubIsolation ==
  [][\A s \in Stubs :
       Stopping(s) =>
         \A t \in Stubs \ {s} : StubState(t)' = StubState(t)]_vars

\* stub 1 is stopped after its process died while stub 2 runs and holds a
\* pending call whose TaskResult is on its way
C16_Witness ==
  /\ count = 2
  /\ proc[1] = "dead" /\ _is_stopped(1)
  /\ proc[2] = "running" /\ ~_is_stopped(2)
  /\ \E m \in 0..(msgid[2] - 1) :
       /\ InMap(m, map[2].keys)
       /\ future[2][m + 1] = PendingFuture
       /\ resChan[2] # <<>> /\ Head(resChan[2]).msgid = m

(* ------------------------- the terminal sentinel ----------------------- *)
\* C17: the sentinel is put on the result pipe once, after the process
\* exited, and is the last message there; every TaskResult the worker sent is
\* processed by the pump before it handles the sentinel, and resolves its
\* future with that result; once the pump has the sentinel it resolves
\* futures with the cancellation error only
C17_SentinelLast ==
  [][\A s \in Stubs :
       /\ \A i \in 1..Len(resChan'[s]) :
            resChan'[s][i] = PoisonPill =>
              i = Len(resChan'[s]) /\ obs'[s] = "done" /\ proc'[s] = "dead"
       /\ observer(s) => obs[s] = "join" /\ proc[s] = "dead"
       /\ pump'[s].pc \in {"stop", "done"} =>
            resChan'[s] = <<>> /\ pumpLog'[s] = resLog'[s]
       /\ msg_pump_resolve(s) =>
            future'[s][pump[s].msg.msgid + 1] = Resolved(pump[s].msg)
       /\ pump[s].pc \in {"stop", "done"} =>
            \A m \in 0..(msgid[s] - 1) :
              future'[s][m + 1] # future[s][m + 1] =>
                future'[s][m + 1] = CancelledError]_vars

(* ------------------------- one execution slot -------------------------- *)
\* the non-urgent Tasks the process began to execute, and the TaskResults it
\* sent for non-urgent Tasks
QueuedStarts(s) == SelectSeq(startLog[s], IsQueued)
QueuedResults(s) ==
  SelectSeq(resLog[s],
            LAMBDA r : ~is_priority_method(callables[s][r.msgid + 1]))

\* C18: in a live process at most one non-urgent Task has begun to execute
\* without its TaskResult sent; the non-urgent Tasks begin to execute in the
\* order received and their TaskResults are sent in that order; and the
\* dispatch loop can receive the next Task while one is executing
C18_OneExecutionSlot ==
  \A s \in Stubs :
    proc[s] = "running" =>
      /\ Len(QueuedStarts(s)) - Len(QueuedResults(s)) \in {0, 1}
      /\ IsPrefix(QueuedStarts(s), SelectSeq(recvLog[s], IsQueued))
      /\ \A i \in 1..Len(QueuedResults(s)) :
           QueuedResults(s)[i].msgid = QueuedStarts(s)[i].msgid
      /\ (execu[s].pc = "run" /\ disp[s].pc = "recv" /\ taskChan[s] # <<>>)
           => ENABLED run_impl_recv(s)

\* the first of three non-urgent Tasks was answered, the second is executing,
\* the third waits in the queue and a further Task can be received
C18_Witness ==
  /\ proc[1] = "running"
  /\ Len(QueuedResults(1)) = 1
  /\ execu[1].pc = "run"
  /\ Len(queue[1]) = 1
  /\ execu[1].task.msgid # QueuedResults(1)[1].msgid

(* ---------------------- futures resolve only once ---------------------- *)
\* C19: set_result or set_exception is never applied to a future that is
\* already resolved: not by remote_call on a stopped stub, not by the pump
\* for a TaskResult, not by the pump's cancellation at stop
C19_ResolvedOnce ==
  [][\A s \in Stubs :
       /\ \A m \in 0..(msgid[s] - 1) :
            (_is_stopped(s) /\ \E arg \in Args : remote_call_enter(s, m, arg))
              => ~IsDone(future[s][m + 1])
       /\ (msg_pump_resolve(s) /\ InMap(pump[s].msg.msgid, map[s].keys))
            => ~IsDone(future[s][pump[s].msg.msgid + 1])
       /\ msg_pump_stop(s) =>
            \A i \in 1..Len(map[s].keys) :
              ~IsDone(future[s][map[s].keys[i] + 1])]_vars

====
